---- MODULE Spec2Model ----
(***************************************************************************)
(* Model of the hook produced by createSuparismaHook                       *)
(* (src/src/generators/coreGenerator.ts): one view instance over one       *)
(* table, with its fetches, push-event handlers, count refreshes and the   *)
(* debounced search overlay.                                               *)
(*                                                                         *)
(* Granularity: one action per handler or continuation.  A handler runs    *)
(* together with the re-render and the effects it causes (the refs         *)
(* whereRef/orderByRef/limitRef/offsetRef therefore always equal the       *)
(* current options and are not separate variables).  Every await splits a  *)
(* function into an issuing action and a response action.                  *)
(*                                                                         *)
(* The gateway is external: the rows of a response are any list the        *)
(* gateway could answer for the request (distinct identifiers, matching    *)
(* the filter, in the requested order, inside the requested window).       *)
(***************************************************************************)
EXTENDS Integers, Sequences, FiniteSets

\* ------------------------------------------------------------------ bounds
MaxId == 2          \* identifiers are 1..MaxId
MaxNum == 1         \* the numeric field num ranges over 0..MaxNum
MaxLimit == 2       \* limits offered to the view: none, 1..MaxLimit
MaxFetch == 1       \* findMany requests in flight at once
MaxRpc == 1         \* search executions in flight at once
MaxCount == 1       \* count refreshes pending at once
MaxCalls == 1       \* create / update / count calls in flight at once
MaxOverlap == 2         \* fetches in flight at once where fetches overlap
MaxRows == 3        \* rows on display when one without identifier is pushed

\* ------------------------------------------------------- program constants
hasCreatedAt == TRUE
searchFields == {"name", "email"}

\* ------------------------------------------------------------------ values
Null == -1                       \* null / undefined field value
NoLimit == 0                     \* limit / take undefined (falsy like 0)
NoOffset == -1                   \* offset / skip undefined
NoWhere == <<>>                  \* where undefined
NoOrder == <<>>                  \* orderBy undefined
NoTimer == 0                     \* searchTimeoutRef.current === null

Ids == 1..MaxId
Nums == 0..MaxNum

\* A row: identifier, one numeric field, and the creation timestamp (a row
\* created later has the larger timestamp; here it follows the identifier).
RowUniverse == {[id |-> i, num |-> n, createdAt |-> i] : i \in Ids, n \in Nums}

\* ---------------------------------------------------------------- helpers
Range(s) == {s[i] : i \in DOMAIN s}

SeqsUpTo(S, n) == UNION {[1..k -> S] : k \in 0..n}

DistinctIds(s) == \A i, j \in DOMAIN s : i # j => s[i].id # s[j].id

\* Every list of rows with pairwise distinct identifiers.
RowLists == {s \in SeqsUpTo(RowUniverse, MaxId) : DistinctIds(s)}

Take(s, n) == SubSeq(s, 1, IF n < Len(s) THEN n ELSE Len(s))

Drop(s, n) == SubSeq(s, (IF n < Len(s) THEN n ELSE Len(s)) + 1, Len(s))

RECURSIVE FilterSeq(_, _)
FilterSeq(s, keep) ==
  IF s = <<>> THEN <<>>
  ELSE IF s[1] \in keep THEN <<s[1]>> \o FilterSeq(Tail(s), keep)
       ELSE FilterSeq(Tail(s), keep)

\* ---------------------------------------------------------- compareValues
compareValues(a, b, direction) ==
  IF a = Null THEN (IF direction = "asc" THEN -1 ELSE 1)
  ELSE IF b = Null THEN (IF direction = "asc" THEN 1 ELSE -1)
  ELSE IF direction = "asc" THEN a - b ELSE b - a

\* The comparator the push handlers sort with: each orderBy clause in turn,
\* skipping a clause whose two values are identical; without orderBy the
\* creation timestamp, descending; without either, no order (0).
RECURSIVE orderByCompare(_, _, _)
orderByCompare(orderBy, a, b) ==
  IF orderBy = <<>> THEN 0
  ELSE LET clause == orderBy[1] IN
       IF a[clause.field] = b[clause.field]
       THEN orderByCompare(Tail(orderBy), a, b)
       ELSE compareValues(a[clause.field], b[clause.field], clause.direction)

rowCompare(orderBy, a, b) ==
  IF orderBy # NoOrder THEN orderByCompare(orderBy, a, b)
  ELSE IF hasCreatedAt THEN compareValues(a.createdAt, b.createdAt, "desc")
  ELSE 0

\* Array.prototype.sort with that comparator: a stable sort.
RECURSIVE insertSorted(_, _, _)
insertSorted(orderBy, x, s) ==
  IF s = <<>> THEN <<x>>
  ELSE LET e == s[Len(s)] IN
       IF rowCompare(orderBy, e, x) > 0
       THEN Append(insertSorted(orderBy, x, SubSeq(s, 1, Len(s) - 1)), e)
       ELSE Append(s, x)

RECURSIVE sortRows(_, _)
sortRows(orderBy, s) ==
  IF s = <<>> THEN <<>>
  ELSE insertSorted(orderBy, s[Len(s)], sortRows(orderBy, SubSeq(s, 1, Len(s) - 1)))

IsSorted(orderBy, s) ==
  \A i, j \in DOMAIN s : i < j => rowCompare(orderBy, s[i], s[j]) <= 0

\* ---------------------------------------------------------------- filters
\* A where object is a list of entries [field, op, value]; op "lit" is a
\* literal (equality) entry, every other op an operator object.
WhereLit(v) == <<[field |-> "num", op |-> "lit", value |-> v]>>
WhereGt(v) == <<[field |-> "num", op |-> "gt", value |-> v]>>

Wheres == {NoWhere, WhereLit(1), WhereGt(0)}
OrderByAsc == <<[field |-> "num", direction |-> "asc"]>>
OrderByDesc == <<[field |-> "num", direction |-> "desc"]>>
OrderBys == {NoOrder, OrderByAsc, OrderByDesc}
Limits == {NoLimit} \cup (1..MaxLimit)
Offsets == {NoOffset, 1}

\* applyFilter / buildFilterString: what the gateway keeps for a where.
entryHolds(e, row) ==
  CASE e.op = "lit" -> row[e.field] = e.value
    [] e.op = "gt"  -> row[e.field] # Null /\ row[e.field] > e.value
    [] OTHER        -> TRUE

applyFilter(where, row) == \A k \in DOMAIN where : entryHolds(where[k], row)

\* The filter check of the INSERT handler: operator entries are assumed to
\* match, literal entries are compared with !==.
matchesFilter(currentWhere, newRecord) ==
  \A k \in DOMAIN currentWhere :
    currentWhere[k].op # "lit"
    \/ newRecord[currentWhere[k].field] = currentWhere[k].value

\* ------------------------------------------------------- search queries
\* A query value is a string, held as its list of characters.
QueryFields == searchFields \cup {"age"}
QueryValues == {<<>>, <<" ">>, <<"a">>, <<"a", " ">>}
Queries == [field : QueryFields, value : QueryValues]

RECURSIVE trimStart(_)
trimStart(v) == IF v # <<>> /\ v[1] = " " THEN trimStart(Tail(v)) ELSE v

RECURSIVE trimEnd(_)
trimEnd(v) ==
  IF v # <<>> /\ v[Len(v)] = " " THEN trimEnd(SubSeq(v, 1, Len(v) - 1)) ELSE v

\* Mutant of trim: nothing is trimmed.
trimNone(v) == v

trim(v) == trimEnd(trimStart(v))

\* searchFields.includes(query.field) && query.value.trim() !== ''
validQuery(query) == query.field \in searchFields /\ trim(query.value) # <<>>

ValidQueries == {q \in Queries : validQuery(q)}

\* Lists of queries a caller may hand to setQueries.
QueryLists == SeqsUpTo(Queries, 1) \cup
              {<<p, q>> : p \in ValidQueries, q \in ValidQueries}

hasField(queries, field) == \E i \in DOMAIN queries : queries[i].field = field

\* prev.map(q => q.field === query.field ? query : q) or [...prev, query]
putQuery(prev, query) ==
  IF hasField(prev, query.field)
  THEN [i \in DOMAIN prev |-> IF prev[i].field = query.field THEN query ELSE prev[i]]
  ELSE Append(prev, query)

\* prev.filter(q => q.field !== field)
dropField(prev, field) ==
  FilterSeq(prev, {q \in Range(prev) : q.field # field})

\* ------------------------------------------------------------------ state
Options == [where : Wheres, orderBy : OrderBys, limit : Limits, offset : Offsets]

VARIABLES
  realtime,          \* option realtime
  opts,              \* options where / orderBy / limit / offset (and their refs)
  optionsRef,        \* optionsRef.current
  mountOpts,         \* the options of the first render
  sub,               \* the open subscription (channelRef.current), or NoSub
  data,              \* rows
  count,             \* totalCount
  loading,
  error,
  searchQueries,
  searchLoading,
  isSearching,       \* isSearchingRef.current
  timers,            \* pending debounce timers [id, queries, opts]
  searchTimeoutRef,  \* searchTimeoutRef.current
  rpcs,              \* search executions whose gateway calls are in flight
  fetches,           \* findMany requests in flight
  counts,            \* count refreshes: deferred ("timer") or in flight
  channels,          \* the channel registrations open at the gateway
  channelRef,        \* channelRef.current: a channel id, or NoChannel
  mounted,           \* the component is mounted
  calls,             \* create / update / count ... calls in flight
  lastOp,            \* history: the handler that ran last ("other" for
                     \* those no property below names)
  returned           \* history: what the operation that completed in the
                     \* last step returned, NoResult if none did

\* The program's state; lastOp is not part of it.
vars == <<realtime, opts, optionsRef, mountOpts, sub, data, count, loading,
          error, searchQueries, searchLoading, isSearching, timers,
          searchTimeoutRef, rpcs, fetches, counts, channels, channelRef,
          mounted, calls>>

allVars == <<vars, lastOp, returned>>

viewVars == <<data, count, loading, error>>
searchVars == <<searchQueries, searchLoading, isSearching, timers,
                searchTimeoutRef, rpcs>>
\* The props and refs of the render, the subscription, and the calls in
\* flight: what the handlers of the view and of the search leave alone.
renderVars == <<realtime, opts, optionsRef, mountOpts, sub, channels,
                channelRef, mounted>>
propVars == <<renderVars, calls>>

NoSub == [open |-> FALSE, where |-> NoWhere]
NoError == "none"
NoChannel == 0
\* Results { data, error }: hasData is data !== null.
\* count is the number a count or deleteMany returns, Null elsewhere.
NoResult == [op |-> "none", hasData |-> FALSE, data |-> <<>>, count |-> Null,
             error |-> NoError]

\* --------------------------------------------------------------- findMany
DefaultRange == 10               \* params.skip + (params.take || 10) - 1

\* A findMany request in flight: its params, and the where its closure holds
\* (the where of the render that created this findMany).
fetchReq(p, cwhere) ==
  [where |-> p.where, orderBy |-> p.orderBy, take |-> p.limit,
   skip |-> p.offset, cwhere |-> cwhere]

\* How many rows the gateway returns at most: limit(take), overridden by
\* range(skip, skip + (take || 10) - 1) when skip is given.
windowSize(take, skip) ==
  IF skip # NoOffset /\ skip >= 0
  THEN (IF take # NoLimit THEN take ELSE DefaultRange)
  ELSE IF take # NoLimit THEN take
  ELSE MaxId

\* What the gateway may answer to a request.
Responses(req) ==
  {s \in RowLists :
     /\ \A i \in DOMAIN s : applyFilter(req.where, s[i])
     /\ IsSorted(req.orderBy, s)
     /\ Len(s) <= windowSize(req.take, req.skip)}

canIssue(req) == req \in fetches \/ Cardinality(fetches) < MaxFetch

canCount(new) == new \subseteq counts \/ Cardinality(new) <= MaxCount

\* The synchronous part of findMany, up to the await.
findManyIssue(req) ==
  /\ canIssue(req)
  /\ loading' = TRUE
  /\ error' = NoError
  /\ fetches' = fetches \cup {req}

\* Mutant of findManyOk: the response is applied whatever the overlay flag.
findManyOkNoGuard(req, typedData) ==
  /\ req \in fetches
  /\ typedData \in Responses(req)
  /\ fetches' = fetches \ {req}
  /\ data' = typedData
  /\ counts' = IF ~isSearching /\ req.where # req.cwhere
               THEN counts \cup {[stage |-> "timer", where |-> req.cwhere]}
               ELSE counts
  /\ canCount(counts')
  /\ loading' = FALSE
  /\ UNCHANGED <<count, error, propVars, searchVars>>

\* The continuation of findMany after a successful await.
findManyOk(req, typedData) ==
  /\ req \in fetches
  /\ typedData \in Responses(req)
  /\ fetches' = fetches \ {req}
  /\ data' = IF isSearching THEN data ELSE typedData
  /\ counts' = IF ~isSearching /\ req.where # req.cwhere
               THEN counts \cup {[stage |-> "timer", where |-> req.cwhere]}
               ELSE counts
  /\ canCount(counts')
  /\ loading' = FALSE
  /\ UNCHANGED <<count, error, propVars, searchVars>>

\* Mutant of findManyFail: a failed fetch blanks the rows.
findManyFailBlank(req) ==
  /\ req \in fetches
  /\ fetches' = fetches \ {req}
  /\ error' = "fetch"
  /\ loading' = FALSE
  /\ data' = <<>>
  /\ UNCHANGED <<count, counts, propVars, searchVars>>

\* The continuation of findMany after a failed await.
findManyFail(req) ==
  /\ req \in fetches
  /\ fetches' = fetches \ {req}
  /\ error' = "fetch"
  /\ loading' = FALSE
  /\ UNCHANGED <<data, count, counts, propVars, searchVars>>

\* return { data: typedData, error: null }
findManyOkResult(typedData) ==
  [op |-> "findMany", hasData |-> TRUE, data |-> typedData, count |-> Null,
   error |-> NoError]

\* return { data: null, error: err }
findManyFailResult ==
  [op |-> "findMany", hasData |-> FALSE, data |-> <<>>, count |-> Null,
   error |-> "fetch"]

\* A direct call of findMany by the consumer.
findMany(p) ==
  /\ findManyIssue(fetchReq(p, opts.where))
  /\ UNCHANGED <<data, count, counts, propVars, searchVars>>

\* findFirst: findMany({...params, take: 1}).
findFirst(p) ==
  /\ findManyIssue(fetchReq([p EXCEPT !.limit = 1, !.offset = NoOffset], opts.where))
  /\ UNCHANGED <<data, count, counts, propVars, searchVars>>

\* -------------------------------------------------------- fetchTotalCount
\* A direct call of fetchTotalCount whose closure holds `where`.
countIssued(where) ==
  IF isSearching THEN counts
  ELSE counts \cup {[stage |-> "inflight", where |-> where]}

\* setTimeout(() => fetchTotalCount(), 0)
countDeferred(where) == counts \cup {[stage |-> "timer", where |-> where]}

\* The deferred call runs.
countTimerFire(c) ==
  /\ c \in counts /\ c.stage = "timer"
  /\ counts' = IF isSearching THEN counts \ {c}
               ELSE (counts \ {c}) \cup {[stage |-> "inflight", where |-> c.where]}
  /\ UNCHANGED <<viewVars, fetches, propVars, searchVars>>

\* The count query answers: setCount(totalCount || 0) unless countError.
countResponse(c, totalCount, countError) ==
  /\ c \in counts /\ c.stage = "inflight"
  /\ counts' = counts \ {c}
  /\ count' = IF countError THEN count ELSE totalCount
  /\ UNCHANGED <<data, loading, error, fetches, propVars, searchVars>>

\* ----------------------------------------------------------- push events
\* The sort every handler applies: by orderBy, else by createdAt descending
\* when the model has one, else none.
resort(currentOrderBy, rows) ==
  IF currentOrderBy # NoOrder \/ hasCreatedAt
  THEN sortRows(currentOrderBy, rows)
  ELSE rows

\* 'id' in item && 'id' in newRecord && item.id === newRecord.id
sameId(a, b) == a # Null /\ b # Null /\ a = b

hasId(rows, id) == \E i \in DOMAIN rows : sameId(rows[i].id, id)

\* Mutant of insertApplies: the duplicate check is missing.
insertAppliesNoDup(prev, newRecord, currentWhere) ==
  matchesFilter(currentWhere, newRecord)

\* INSERT: does the updater reach the append (filter matches, id is new)?
insertApplies(prev, newRecord, currentWhere) ==
  matchesFilter(currentWhere, newRecord) /\ ~hasId(prev, newRecord.id)

\* Mutant of onInsert: a row whose identifier rows already hold is appended.
onInsertAgain(prev, newRecord, currentWhere, currentOrderBy, currentLimit) ==
  IF ~matchesFilter(currentWhere, newRecord) THEN prev
  ELSE LET newData == resort(currentOrderBy, Append(prev, newRecord)) IN
       IF currentLimit # NoLimit /\ currentLimit > 0
       THEN Take(newData, currentLimit)
       ELSE newData

\* Mutant of onInsert: the list is cut to the limit before it is sorted.
onInsertTruncFirst(prev, newRecord, currentWhere, currentOrderBy, currentLimit) ==
  IF ~insertApplies(prev, newRecord, currentWhere) THEN prev
  ELSE LET newData == Append(prev, newRecord) IN
       IF currentLimit # NoLimit /\ currentLimit > 0
       THEN resort(currentOrderBy, Take(newData, currentLimit))
       ELSE resort(currentOrderBy, newData)

\* INSERT: the updater passed to setData.
onInsert(prev, newRecord, currentWhere, currentOrderBy, currentLimit) ==
  IF ~insertApplies(prev, newRecord, currentWhere) THEN prev
  ELSE LET newData == resort(currentOrderBy, Append(prev, newRecord)) IN
       IF currentLimit # NoLimit /\ currentLimit > 0
       THEN Take(newData, currentLimit)
       ELSE newData

\* Mutant of onUpdate: a row whose identifier rows do not hold is added.
onUpdateUpsert(prev, newRecord, currentOrderBy) ==
  resort(currentOrderBy,
         IF hasId(prev, newRecord.id)
         THEN [i \in DOMAIN prev |->
                 IF sameId(prev[i].id, newRecord.id) THEN newRecord ELSE prev[i]]
         ELSE Append(prev, newRecord))

\* UPDATE: the updater passed to setData.
onUpdate(prev, newRecord, currentOrderBy) ==
  resort(currentOrderBy,
         [i \in DOMAIN prev |->
            IF sameId(prev[i].id, newRecord.id) THEN newRecord ELSE prev[i]])

\* DELETE: prev without the deleted row.
withoutId(prev, id) ==
  FilterSeq(prev, {r \in Range(prev) : ~sameId(r.id, id)})

\* Mutant of needsRefill: the refill does not depend on the previous size.
needsRefillAlways(prev, id, currentLimit) ==
  /\ currentLimit # NoLimit /\ currentLimit > 0
  /\ Len(withoutId(prev, id)) < Len(prev)

\* DELETE: does the handler take the refill branch?
needsRefill(prev, id, currentLimit) ==
  /\ currentLimit # NoLimit /\ currentLimit > 0
  /\ Len(withoutId(prev, id)) < Len(prev)
  /\ Len(prev) = currentLimit

\* DELETE: the updater passed to setData.
onDelete(prev, id, currentOrderBy, currentLimit) ==
  IF needsRefill(prev, id, currentLimit) THEN withoutId(prev, id)
  ELSE resort(currentOrderBy, withoutId(prev, id))

\* The gateway delivers an event only to an open subscription, and an insert
\* or update only when the new row passes the subscription's filter (the
\* where of the render that opened it).
delivers(newRecord) ==
  \E ch \in channels : applyFilter(ch.where, newRecord)

\* Mutant of pushInsert: the handler checks the where captured when the
\* subscription was opened.
pushInsertCaptured(newRecord) ==
  /\ delivers(newRecord)
  /\ IF isSearching THEN UNCHANGED <<data, counts>>
     ELSE /\ data' = onInsert(data, newRecord, sub.where, opts.orderBy, opts.limit)
          /\ counts' = IF insertApplies(data, newRecord, sub.where)
                       THEN countDeferred(sub.where) ELSE counts
          /\ canCount(counts')
  /\ UNCHANGED <<count, loading, error, fetches, propVars, searchVars>>

pushInsert(newRecord) ==
  /\ delivers(newRecord)
  /\ IF isSearching THEN UNCHANGED <<data, counts>>
     ELSE /\ data' = onInsert(data, newRecord, opts.where, opts.orderBy, opts.limit)
          /\ counts' = IF insertApplies(data, newRecord, opts.where)
                       THEN countDeferred(sub.where) ELSE counts
          /\ canCount(counts')
  /\ UNCHANGED <<count, loading, error, fetches, propVars, searchVars>>

pushUpdate(newRecord) ==
  /\ delivers(newRecord)
  /\ IF isSearching THEN UNCHANGED <<data, counts>>
     ELSE /\ data' = onUpdate(data, newRecord, opts.orderBy)
          /\ counts' = countDeferred(sub.where)
          /\ canCount(counts')
  /\ UNCHANGED <<count, loading, error, fetches, propVars, searchVars>>

\* The refill findMany of the DELETE handler is the findMany of the render
\* that opened the subscription, called with the current (ref) options.
pushDelete(id) ==
  /\ channels # {}
  /\ IF isSearching THEN UNCHANGED <<data, counts, fetches, loading, error>>
     ELSE /\ data' = onDelete(data, id, opts.orderBy, opts.limit)
          /\ counts' = countDeferred(sub.where)
          /\ canCount(counts')
          /\ IF needsRefill(data, id, opts.limit)
             THEN findManyIssue(fetchReq(opts, sub.where))
             ELSE UNCHANGED <<fetches, loading, error>>
  /\ UNCHANGED <<count, propVars, searchVars>>

\* ---------------------------------------------------------- executeSearch
SearchDebounce == 300            \* the delay of the debounce timer, in ms

\* clearTimeout(searchTimeoutRef.current)
clearTimeout(pending, ref) == {t \in pending : t.id # ref}

\* The handle setTimeout returns: one no pending timer has.
newTimerId(pending) ==
  CHOOSE i \in 1..(Cardinality(pending) + 1) :
    /\ \A t \in pending : t.id # i
    /\ \A j \in 1..(i - 1) : \E t \in pending : t.id = j

\* Mutant of timersAfterSearch: the previous timer is not cleared.
timersAfterSearchNoClear(queries, o) ==
  IF Cardinality(searchFields) = 0 \/ queries = <<>> THEN timers
  ELSE timers \cup {[id |-> newTimerId(timers), queries |-> queries, opts |-> o]}

\* The timers left pending by executeSearch(queries) of a render whose
\* options were o.
timersAfterSearch(queries, o) ==
  LET cleared == clearTimeout(timers, searchTimeoutRef) IN
  IF Cardinality(searchFields) = 0 \/ queries = <<>> THEN cleared
  ELSE cleared \cup {[id |-> newTimerId(cleared), queries |-> queries, opts |-> o]}

\* executeSearch(queries), up to and including setTimeout.
executeSearch(queries, o) ==
  /\ timers' = timersAfterSearch(queries, o)
  /\ IF Cardinality(searchFields) = 0 \/ queries = <<>>
     THEN UNCHANGED <<searchLoading, isSearching, searchTimeoutRef>>
     ELSE /\ searchLoading' = TRUE
          /\ isSearching' = TRUE
          /\ searchTimeoutRef' =
               newTimerId(clearTimeout(timers, searchTimeoutRef))

\* The handlers' fallback when no query is left:
\* isSearchingRef.current = false; findMany({ where, orderBy, take, skip }).
resetToFetch ==
  /\ isSearching' = FALSE
  /\ findManyIssue(fetchReq(opts, opts.where))
  /\ UNCHANGED <<searchLoading, timers, searchTimeoutRef>>

\* search.setQueries
setQueries(queries) ==
  LET validQueries == FilterSeq(queries, {q \in Range(queries) : validQuery(q)}) IN
  /\ searchQueries' = validQueries
  /\ IF validQueries # <<>>
     THEN /\ executeSearch(validQueries, opts)
          /\ UNCHANGED <<fetches, loading, error>>
     ELSE resetToFetch
  /\ UNCHANGED <<data, count, counts, rpcs, propVars>>

\* search.addQuery: its executeSearch is the one of the first render.
addQuery(query) ==
  IF ~validQuery(query) THEN UNCHANGED vars
  ELSE /\ searchQueries' = putQuery(searchQueries, query)
       /\ executeSearch(putQuery(searchQueries, query), mountOpts)
       /\ UNCHANGED <<viewVars, fetches, counts, rpcs, propVars>>

\* search.removeQuery
removeQuery(field) ==
  LET newQueries == dropField(searchQueries, field) IN
  /\ searchQueries' = newQueries
  /\ IF newQueries # <<>>
     THEN /\ executeSearch(newQueries, opts)
          /\ UNCHANGED <<fetches, loading, error>>
     ELSE resetToFetch
  /\ UNCHANGED <<data, count, counts, rpcs, propVars>>

\* search.clearQueries
clearQueries ==
  /\ searchQueries' = <<>>
  /\ resetToFetch
  /\ UNCHANGED <<data, count, counts, rpcs, propVars>>

\* The debounce timer fires: one gateway search call per query is issued.
searchTimerFire(t) ==
  /\ t \in timers
  /\ LET rpc == [queries |-> t.queries, opts |-> t.opts] IN
     /\ rpc \in rpcs \/ Cardinality(rpcs) < MaxRpc
     /\ rpcs' = rpcs \cup {rpc}
  /\ timers' = timers \ {t}
  /\ UNCHANGED <<viewVars, fetches, counts, propVars, searchQueries,
                 searchLoading, isSearching, searchTimeoutRef>>

\* The client-side where of a search: literal entries only.
searchFilter(results, where) ==
  FilterSeq(results, {r \in Range(results) : matchesFilter(where, r)})

\* aValue = a[orderField] ?? '' compared with < and >.
orEmpty(v) == IF v = Null THEN 0 ELSE v

searchCompare(orderBy, a, b) ==
  LET aValue == orEmpty(a[orderBy[1].field])
      bValue == orEmpty(b[orderBy[1].field])
  IN IF orderBy[1].direction = "asc"
     THEN (IF aValue < bValue THEN -1 ELSE IF aValue > bValue THEN 1 ELSE 0)
     ELSE (IF aValue > bValue THEN -1 ELSE IF aValue < bValue THEN 1 ELSE 0)

RECURSIVE searchInsert(_, _, _)
searchInsert(orderBy, x, s) ==
  IF s = <<>> THEN <<x>>
  ELSE LET e == s[Len(s)] IN
       IF searchCompare(orderBy, e, x) > 0
       THEN Append(searchInsert(orderBy, x, SubSeq(s, 1, Len(s) - 1)), e)
       ELSE Append(s, x)

RECURSIVE searchSort(_, _)
searchSort(orderBy, s) ==
  IF orderBy = NoOrder \/ s = <<>> THEN s
  ELSE searchInsert(orderBy, s[Len(s)],
                    searchSort(orderBy, SubSeq(s, 1, Len(s) - 1)))

\* results.slice(0, limit), then .slice(offset).
paginate(results, limit, offset) ==
  LET limited == IF limit # NoLimit /\ limit > 0 THEN Take(results, limit)
                 ELSE results
  IN IF offset # NoOffset /\ offset > 0 THEN Drop(limited, offset) ELSE limited

\* The gateway calls of an execution have all answered; results is the
\* merge of their rows by identifier.
searchResponse(rpc, results) ==
  /\ rpc \in rpcs
  /\ results \in RowLists
  /\ rpcs' = rpcs \ {rpc}
  /\ LET filtered == searchFilter(results, rpc.opts.where) IN
     /\ count' = Len(filtered)
     /\ data' = paginate(searchSort(rpc.opts.orderBy, filtered),
                         rpc.opts.limit, rpc.opts.offset)
  /\ searchLoading' = FALSE
  /\ UNCHANGED <<loading, error, fetches, counts, propVars, searchQueries,
                 isSearching, timers, searchTimeoutRef>>

\* Mutant of refresh: the fetch is issued whether a search is active or not.
refreshAlwaysFetch(p) ==
  /\ findManyIssue(fetchReq(
       [where   |-> IF p.where # NoWhere THEN p.where ELSE opts.where,
        orderBy |-> IF p.orderBy # NoOrder THEN p.orderBy ELSE opts.orderBy,
        limit   |-> IF p.limit # NoLimit THEN p.limit ELSE opts.limit,
        offset  |-> IF p.offset # NoOffset THEN p.offset ELSE opts.offset],
       opts.where))
  /\ UNCHANGED <<data, count, counts, propVars, searchVars>>

\* refresh
refresh(p) ==
  IF isSearching /\ searchQueries # <<>>
  THEN /\ executeSearch(searchQueries, opts)
       /\ UNCHANGED <<viewVars, fetches, counts, rpcs, propVars, searchQueries>>
  ELSE /\ findManyIssue(fetchReq(
            [where   |-> IF p.where # NoWhere THEN p.where ELSE opts.where,
             orderBy |-> IF p.orderBy # NoOrder THEN p.orderBy ELSE opts.orderBy,
             limit   |-> IF p.limit # NoLimit THEN p.limit ELSE opts.limit,
             offset  |-> IF p.offset # NoOffset THEN p.offset ELSE opts.offset],
            opts.where))
       /\ UNCHANGED <<data, count, counts, propVars, searchVars>>

\* ------------------------------------------------------ renders, effects
\* optionsChanged(): the new options against optionsRef.current.
optionsChanged(o) ==
  \/ o.where # optionsRef.where
  \/ o.orderBy # optionsRef.orderBy
  \/ o.limit # optionsRef.limit
  \/ o.offset # optionsRef.offset

\* Mutant of closeChannel: the registration stays open.
closeChannelNot(open, ref) == open

\* supabase.removeChannel(channelRef.current) / channelRef.current.unsubscribe()
closeChannel(open, ref) == {ch \in open : ch.id # ref}

\* The channel object supabase.channel() returns: one nothing refers to.
newChannelId(open, ref) ==
  CHOOSE i \in 1..(Cardinality(open) + 2) :
    /\ i # ref /\ \A ch \in open : ch.id # i
    /\ \A j \in 1..(i - 1) : j = ref \/ \E ch \in open : ch.id = j

\* The registrations open after the effect has run with realtime on: the
\* channel the ref still holds is unsubscribed, and a new one subscribed with
\* the filter of this render.
channelsAfterEffect(open, ref) ==
  closeChannel(open, ref)
    \cup {[id |-> newChannelId(closeChannel(open, ref), NoChannel),
           where |-> opts.where]}

\* Mutant of setOptions: where is a dependency of the subscription effect.
setOptionsResubscribe(o) ==
  LET reload == ~isSearching /\ optionsChanged(o)
      countEffect == o.where # opts.where \/ o = opts
  IN
  /\ opts' = o
  /\ optionsRef' = IF reload THEN o ELSE optionsRef
  /\ IF reload THEN findManyIssue(fetchReq(o, o.where))
     ELSE UNCHANGED <<fetches, loading, error>>
  /\ counts' = IF countEffect \/ reload THEN countIssued(o.where) ELSE counts
  /\ canCount(counts')
  /\ sub' = IF realtime THEN [open |-> TRUE, where |-> o.where] ELSE sub
  /\ channels' = IF realtime
                 THEN {[id |-> newChannelId(closeChannel(channels, channelRef), NoChannel),
                        where |-> o.where]}
                 ELSE channels
  /\ channelRef' = IF realtime
                   THEN newChannelId(closeChannel(channels, channelRef), NoChannel)
                   ELSE channelRef
  /\ UNCHANGED <<data, count, realtime, mountOpts, mounted, calls, searchVars>>

\* A render with options o (o = opts: the same options as new objects), and
\* its effects: the count effect when where is a new object, and the load
\* effect, which reloads when optionsChanged() and no search is active.
setOptions(o) ==
  LET reload == ~isSearching /\ optionsChanged(o)
      countEffect == o.where # opts.where \/ o = opts
  IN
  /\ opts' = o
  /\ optionsRef' = IF reload THEN o ELSE optionsRef
  /\ IF reload THEN findManyIssue(fetchReq(o, o.where))
     ELSE UNCHANGED <<fetches, loading, error>>
  /\ counts' = IF countEffect \/ reload THEN countIssued(o.where) ELSE counts
  /\ canCount(counts')
  /\ UNCHANGED <<data, count, realtime, mountOpts, sub, channels, channelRef,
                 mounted, calls, searchVars>>

\* The cleanup of the subscription effect: the channel is removed and the
\* pending debounce timer cleared.
cleanupTimers == clearTimeout(timers, searchTimeoutRef)

\* The realtime option flips: the cleanup of the previous effect run (it has
\* one only if realtime was on), then the effect again.
setRealtime ==
  /\ realtime' = ~realtime
  /\ IF realtime
     THEN /\ sub' = NoSub
          /\ channels' = closeChannel(channels, channelRef)
          /\ channelRef' = NoChannel
          /\ timers' = cleanupTimers
          /\ searchTimeoutRef' = NoTimer
     ELSE /\ sub' = [open |-> TRUE, where |-> opts.where]
          /\ channels' = channelsAfterEffect(channels, channelRef)
          /\ channelRef' = newChannelId(closeChannel(channels, channelRef), NoChannel)
          /\ UNCHANGED <<timers, searchTimeoutRef>>
  /\ UNCHANGED <<opts, optionsRef, mountOpts, mounted, calls, viewVars,
                 fetches, counts, searchQueries, searchLoading, isSearching,
                 rpcs>>

\* channelName changes while realtime is on: cleanup, then a new channel
\* whose filter and handler are those of this render.
setChannelName ==
  /\ realtime
  /\ sub' = [open |-> TRUE, where |-> opts.where]
  /\ channels' = channelsAfterEffect(closeChannel(channels, channelRef), NoChannel)
  /\ channelRef' = newChannelId(closeChannel(channels, channelRef), NoChannel)
  /\ timers' = cleanupTimers
  /\ searchTimeoutRef' = NoTimer
  /\ UNCHANGED <<realtime, opts, optionsRef, mountOpts, mounted, calls,
                 viewVars, fetches, counts, searchQueries, searchLoading,
                 isSearching, rpcs>>

\* Mutant of unmount: the effect has no cleanup.
unmountNoCleanup ==
  /\ mounted
  /\ mounted' = FALSE
  /\ UNCHANGED <<sub, channels, channelRef, timers, searchTimeoutRef, realtime,
                 opts, optionsRef, mountOpts, calls, viewVars, fetches, counts,
                 searchQueries, searchLoading, isSearching, rpcs>>

\* The component unmounts: the cleanup of the subscription effect, if it has
\* one.
unmount ==
  /\ mounted
  /\ mounted' = FALSE
  /\ IF realtime
     THEN /\ sub' = NoSub
          /\ channels' = closeChannel(channels, channelRef)
          /\ channelRef' = NoChannel
          /\ timers' = cleanupTimers
          /\ searchTimeoutRef' = NoTimer
     ELSE UNCHANGED <<sub, channels, channelRef, timers, searchTimeoutRef>>
  /\ UNCHANGED <<realtime, opts, optionsRef, mountOpts, calls, viewVars,
                 fetches, counts, searchQueries, searchLoading, isSearching,
                 rpcs>>

\* ------------------------------------------------------------------- Init
\* The state after the first render and its effects: the refs hold the
\* options, the initial findMany and the count query are in flight, and the
\* subscription is open when realtime is on.
InitWith(o, rt) ==
  /\ realtime = rt
  /\ opts = o
  /\ optionsRef = o
  /\ mountOpts = o
  /\ sub = IF rt THEN [open |-> TRUE, where |-> o.where] ELSE NoSub
  /\ data = <<>>
  /\ count = 0
  /\ loading = TRUE
  /\ error = NoError
  /\ searchQueries = <<>>
  /\ searchLoading = FALSE
  /\ isSearching = FALSE
  /\ timers = {}
  /\ searchTimeoutRef = NoTimer
  /\ rpcs = {}
  /\ fetches = {fetchReq(o, o.where)}
  /\ counts = {[stage |-> "inflight", where |-> o.where]}
  /\ channels = IF rt THEN {[id |-> 1, where |-> o.where]} ELSE {}
  /\ channelRef = IF rt THEN 1 ELSE NoChannel
  /\ mounted = TRUE
  /\ calls = {}
  /\ lastOp = "mount"
  /\ returned = NoResult

Counts == 0..MaxId

NoOptions == [where |-> NoWhere, orderBy |-> NoOrder, limit |-> NoLimit,
              offset |-> NoOffset]

\* ---------------------------------------------------- the view (no search)
\* The consumer changes options, fetches and receives push events, and never
\* searches.
ViewOptions == {o \in Options : o.offset = NoOffset /\ o.orderBy # OrderByDesc}
ViewParams == {o \in Options : o.where = NoWhere /\ o.offset = NoOffset}

Init == InitWith(NoOptions, TRUE)

Next ==
  \/ \E o \in ViewOptions : setOptions(o) /\ lastOp' = "other" /\ returned' = NoResult
  \/ \E p \in ViewParams : findMany(p) /\ lastOp' = "other" /\ returned' = NoResult
  \/ \E p \in ViewParams : findFirst(p) /\ lastOp' = "other" /\ returned' = NoResult
  \/ \E p \in ViewParams : refresh(p) /\ lastOp' = "other" /\ returned' = NoResult
  \/ \E req \in fetches : \E typedData \in RowLists : findManyOk(req, typedData) /\ lastOp' = "findManyOk"
       /\ returned' = findManyOkResult(typedData)
  \/ \E req \in fetches : findManyFail(req) /\ lastOp' = "findManyFail" /\ returned' = findManyFailResult
  \/ \E c \in counts : countTimerFire(c) /\ lastOp' = "other" /\ returned' = NoResult
  \/ \E c \in counts : \E n \in Counts : \E e \in BOOLEAN : countResponse(c, n, e) /\ lastOp' = "other" /\ returned' = NoResult
  \/ \E r \in RowUniverse : pushInsert(r) /\ lastOp' = "push" /\ returned' = NoResult
  \/ \E r \in RowUniverse : pushUpdate(r) /\ lastOp' = "push" /\ returned' = NoResult
  \/ \E i \in Ids : pushDelete(i) /\ lastOp' = "push" /\ returned' = NoResult

Spec == Init /\ [][Next]_allVars

\* ------------------------------------------------------ the search overlay
\* The consumer searches, with few options and few rows around it.
SearchOptions == [where |-> WhereLit(1), orderBy |-> OrderByAsc,
                  limit |-> 1, offset |-> NoOffset]
SearchRows == {r \in RowUniverse : r.num = 1}
SearchRowLists == {s \in RowLists : Range(s) \subseteq SearchRows}
SearchQueryInputs ==
  {[field |-> "name", value |-> <<"a">>],
   [field |-> "name", value |-> <<"a", " ">>],
   [field |-> "email", value |-> <<"a">>],
   [field |-> "name", value |-> <<" ">>],
   [field |-> "email", value |-> <<>>],
   [field |-> "age", value |-> <<"a">>]}
SearchQueryLists ==
  SeqsUpTo(SearchQueryInputs, 1) \cup
  {<<[field |-> "name", value |-> <<"a">>], [field |-> "email", value |-> <<"a">>]>>}

\* What a call of addQuery or setQueries was: rejected (no valid query), the
\* first of a burst (no debounce timer pending, so the last scheduling call
\* is at least 300 ms back or cancelled), or one more call of a burst (a
\* debounce timer is pending: less than 300 ms after the call that set it).
callKind(valid) ==
  IF ~valid THEN "rejected"
  ELSE IF timers = {} THEN "scheduled" ELSE "coalesced"

NextSearch ==
  \/ setRealtime /\ lastOp' = "other" /\ returned' = NoResult
  \/ setChannelName /\ lastOp' = "other" /\ returned' = NoResult
  \/ refresh(NoOptions) /\ lastOp' = "other" /\ returned' = NoResult
  \/ \E req \in fetches : \E typedData \in SearchRowLists : findManyOk(req, typedData) /\ lastOp' = "findManyOk"
       /\ returned' = findManyOkResult(typedData)
  \/ \E c \in counts : countTimerFire(c) /\ lastOp' = "other" /\ returned' = NoResult
  \/ \E c \in counts : \E n \in Counts : countResponse(c, n, FALSE) /\ lastOp' = "other" /\ returned' = NoResult
  \/ \E r \in SearchRows : pushInsert(r) /\ lastOp' = "push" /\ returned' = NoResult
  \/ \E r \in SearchRows : pushUpdate(r) /\ lastOp' = "push" /\ returned' = NoResult
  \/ \E i \in Ids : pushDelete(i) /\ lastOp' = "push" /\ returned' = NoResult
  \/ \E qs \in SearchQueryLists :
       /\ setQueries(qs)
       /\ lastOp' = IF \E i \in DOMAIN qs : validQuery(qs[i])
                    THEN callKind(TRUE) ELSE "other"
       /\ returned' = NoResult
  \/ \E q \in SearchQueryInputs : addQuery(q) /\ lastOp' = callKind(validQuery(q)) /\ returned' = NoResult
  \/ \E f \in QueryFields : removeQuery(f) /\ lastOp' = "other" /\ returned' = NoResult
  \/ clearQueries /\ lastOp' = "other" /\ returned' = NoResult
  \/ \E t \in timers : searchTimerFire(t) /\ lastOp' = "searchTimerFire" /\ returned' = NoResult
  \/ \E rpc \in rpcs : \E results \in SearchRowLists : searchResponse(rpc, results) /\ lastOp' = "searchResponse" /\ returned' = NoResult

InitSearch == InitWith(SearchOptions, TRUE)

SpecSearch == InitSearch /\ [][NextSearch]_allVars

\* ------------------------------------------------ create, update, count
\* A call in flight: the operation, the row it writes (NoRow for count) and
\* the where of its closure (count: the where it counts).
NoRow == [id |-> Null, num |-> Null, createdAt |-> Null]

\* deleteMany also carries its filter and, once it has read the matching
\* rows, how many there were.
opCall(op, row, where) ==
  [op |-> op, row |-> row, where |-> where, filter |-> NoWhere, read |-> Null]

canCall(c) == c \in calls \/ Cardinality(calls) < MaxCalls

\* The synchronous part of create / update: setLoading(true); setError(null)
\* and the gateway call.
mutationIssue(c) ==
  /\ canCall(c)
  /\ calls' = calls \cup {c}
  /\ loading' = TRUE
  /\ error' = NoError
  /\ UNCHANGED <<data, count, counts, fetches, renderVars, searchVars>>

\* Mutant of mutationOk: the mutation is applied to the rows locally.
mutationOkLocal(c) ==
  /\ c \in calls
  /\ calls' = calls \ {c}
  /\ counts' = countDeferred(c.where)
  /\ canCount(counts')
  /\ loading' = FALSE
  /\ data' = SelectSeq(data, LAMBDA x : x.id # c.row.id)
  /\ UNCHANGED <<count, error, fetches, renderVars, searchVars>>

\* The continuation after a successful await: the count refresh is deferred;
\* rows are not touched.
mutationOk(c) ==
  /\ c \in calls
  /\ calls' = calls \ {c}
  /\ counts' = countDeferred(c.where)
  /\ canCount(counts')
  /\ loading' = FALSE
  /\ UNCHANGED <<data, count, error, fetches, renderVars, searchVars>>

\* The continuation after a failed await: catch and finally.
mutationFail(c) ==
  /\ c \in calls
  /\ calls' = calls \ {c}
  /\ error' = c.op
  /\ loading' = FALSE
  /\ UNCHANGED <<data, count, counts, fetches, renderVars, searchVars>>

\* return { data: result?.[0], error: null }
mutationOkResult(c) ==
  [op |-> c.op, hasData |-> TRUE, data |-> <<c.row>>, count |-> Null,
   error |-> NoError]

\* return { data: null, error: err }
mutationFailResult(c) ==
  [op |-> c.op, hasData |-> FALSE, data |-> <<>>, count |-> Null,
   error |-> c.op]

create(row) == mutationIssue(opCall("create", row, opts.where))
createOk(c) == c.op = "create" /\ mutationOk(c)
createFail(c) == c.op = "create" /\ mutationFail(c)

update(row) == mutationIssue(opCall("update", row, opts.where))
updateOk(c) == c.op = "update" /\ mutationOk(c)
updateFail(c) == c.op = "update" /\ mutationFail(c)

\* return { data: data?.[0], error: null } when the gateway updated no row
mutationEmptyResult(c) ==
  [op |-> c.op, hasData |-> FALSE, data |-> <<>>, count |-> Null,
   error |-> NoError]

\* delete(where): the lookup of the record to return.
deleteRecord(id) ==
  mutationIssue(opCall("deleteLookup", [NoRow EXCEPT !.id = id], opts.where))

\* The lookup found recordToDelete: the delete call is made.
deleteLookupFound(c, recordToDelete) ==
  /\ c \in calls /\ c.op = "deleteLookup"
  /\ recordToDelete.id = c.row.id
  /\ calls' = (calls \ {c}) \cup {opCall("delete", recordToDelete, c.where)}
  /\ UNCHANGED <<viewVars, counts, fetches, renderVars, searchVars>>

\* The lookup found nothing, or failed: throw new Error('Record not found').
deleteLookupMissing(c) == c.op = "deleteLookup" /\ mutationFail(c)

deleteOk(c) == c.op = "delete" /\ mutationOk(c)
deleteFail(c) == c.op = "delete" /\ mutationFail(c)

\* deleteMany(params): the read of the rows that will be deleted.
deleteMany(filter) ==
  mutationIssue([opCall("deleteManyRead", NoRow, opts.where)
                   EXCEPT !.filter = filter])

\* The read answers recordsToDelete: none, and the operation returns; some,
\* and the delete call is made.
deleteManyRead(c, recordsToDelete) ==
  /\ c \in calls /\ c.op = "deleteManyRead"
  /\ recordsToDelete \in RowLists
  /\ \A i \in DOMAIN recordsToDelete : applyFilter(c.filter, recordsToDelete[i])
  /\ IF recordsToDelete = <<>>
     THEN /\ calls' = calls \ {c}
          /\ loading' = FALSE
     ELSE /\ calls' = (calls \ {c}) \cup
                        {[c EXCEPT !.op = "deleteMany",
                                   !.read = Len(recordsToDelete)]}
          /\ UNCHANGED loading
  /\ UNCHANGED <<data, count, error, counts, fetches, renderVars, searchVars>>

deleteManyReadFail(c) == c.op = "deleteManyRead" /\ mutationFail(c)
deleteManyOk(c) == c.op = "deleteMany" /\ mutationOk(c)
deleteManyFail(c) == c.op = "deleteMany" /\ mutationFail(c)

\* Mutant of deleteManyOkResult: the rows are counted after the delete.
deleteManyOkResultAfter(c) ==
  [op |-> "deleteMany", hasData |-> FALSE, data |-> <<>>, count |-> 0,
   error |-> NoError]

\* return { count: recordsToDelete.length, error: null }
deleteManyOkResult(c) ==
  [op |-> "deleteMany", hasData |-> FALSE, data |-> <<>>, count |-> c.read,
   error |-> NoError]

\* return { count: 0, error: null }
deleteManyNoneResult ==
  [op |-> "deleteMany", hasData |-> FALSE, data |-> <<>>, count |-> 0,
   error |-> NoError]

\* return { count: 0, error: err }
deleteManyFailResult(c) ==
  [op |-> "deleteMany", hasData |-> FALSE, data |-> <<>>, count |-> 0,
   error |-> c.op]

\* upsert(params): findUnique(params.where) is called.
upsert(row) == mutationIssue(opCall("upsertLookup", row, opts.where))

\* Mutant of upsertLookupDone: create is called whatever the lookup found.
upsertLookupDoneCreate(c, existing) ==
  /\ c \in calls /\ c.op = "upsertLookup"
  /\ calls' = (calls \ {c}) \cup {opCall("create", c.row, c.where)}
  /\ loading' = TRUE
  /\ error' = NoError
  /\ UNCHANGED <<data, count, counts, fetches, renderVars, searchVars>>

\* findUnique has returned (existing: it found a row; a lookup that failed
\* returns { data: null, error }, of which upsert reads data only) and upsert
\* calls update or create, which start at once.
upsertLookupDone(c, existing) ==
  /\ c \in calls /\ c.op = "upsertLookup"
  /\ calls' = (calls \ {c}) \cup
                 {opCall(IF existing THEN "update" ELSE "create", c.row, c.where)}
  /\ loading' = TRUE
  /\ error' = NoError
  /\ UNCHANGED <<data, count, counts, fetches, renderVars, searchVars>>

\* count(params): the gateway call; no state of the view is touched.
countFn(where) ==
  /\ canCall(opCall("count", NoRow, where))
  /\ calls' = calls \cup {opCall("count", NoRow, where)}
  /\ UNCHANGED <<viewVars, counts, fetches, renderVars, searchVars>>

\* The count call answers or fails: the operation returns either way.
countFnDone(c) ==
  /\ c \in calls /\ c.op = "count"
  /\ calls' = calls \ {c}
  /\ UNCHANGED <<viewVars, counts, fetches, renderVars, searchVars>>

\* return count || 0
countFnOkResult(n) ==
  [op |-> "count", hasData |-> FALSE, data |-> <<>>, count |-> n,
   error |-> NoError]

\* catch: return 0
countFnFailResult ==
  [op |-> "count", hasData |-> FALSE, data |-> <<>>, count |-> 0,
   error |-> NoError]

\* The consumer creates, updates and counts, with realtime on or off.
InitOps == InitWith(NoOptions, TRUE) \/ InitWith(NoOptions, FALSE)

NextOps ==
  \/ \E r \in RowUniverse : create(r) /\ lastOp' = "mutate" /\ returned' = NoResult
  \/ \E c \in calls :
       createOk(c) /\ lastOp' = "createOk" /\ returned' = mutationOkResult(c)
  \/ \E c \in calls :
       createFail(c) /\ lastOp' = "createFail" /\ returned' = mutationFailResult(c)
  \/ \E r \in RowUniverse : update(r) /\ lastOp' = "mutate" /\ returned' = NoResult
  \/ \E c \in calls :
       updateOk(c) /\ lastOp' = "updateOk" /\ returned' = mutationOkResult(c)
  \/ \E c \in calls :
       updateOk(c) /\ lastOp' = "updateMissing" /\ returned' = mutationEmptyResult(c)
  \/ \E c \in calls :
       updateFail(c) /\ lastOp' = "updateFail" /\ returned' = mutationFailResult(c)
  \/ \E i \in Ids : deleteRecord(i) /\ lastOp' = "mutate" /\ returned' = NoResult
  \/ \E c \in calls : \E r \in RowUniverse :
       deleteLookupFound(c, r) /\ lastOp' = "deleteFound" /\ returned' = NoResult
  \/ \E c \in calls :
       /\ deleteLookupMissing(c) /\ lastOp' = "deleteMissing"
       /\ returned' = mutationFailResult(c)
  \/ \E c \in calls :
       deleteOk(c) /\ lastOp' = "deleteOk" /\ returned' = mutationOkResult(c)
  \/ \E c \in calls :
       deleteFail(c) /\ lastOp' = "deleteFail" /\ returned' = mutationFailResult(c)
  \/ \E w \in Wheres : deleteMany(w) /\ lastOp' = "mutate" /\ returned' = NoResult
  \/ \E c \in calls : \E rs \in RowLists :
       /\ deleteManyRead(c, rs)
       /\ lastOp' = IF rs = <<>> THEN "deleteManyNone" ELSE "deleteManyRead"
       /\ returned' = IF rs = <<>> THEN deleteManyNoneResult ELSE NoResult
  \/ \E c \in calls :
       /\ deleteManyReadFail(c) /\ lastOp' = "deleteManyFail"
       /\ returned' = deleteManyFailResult(c)
  \/ \E c \in calls :
       deleteManyOk(c) /\ lastOp' = "deleteManyOk" /\ returned' = deleteManyOkResult(c)
  \/ \E c \in calls :
       /\ deleteManyFail(c) /\ lastOp' = "deleteManyFail"
       /\ returned' = deleteManyFailResult(c)
  \/ \E r \in RowUniverse : upsert(r) /\ lastOp' = "mutate" /\ returned' = NoResult
  \/ \E c \in calls : \E existing \in BOOLEAN :
       /\ upsertLookupDone(c, existing)
       /\ lastOp' = IF existing THEN "upsertFound" ELSE "upsertNotFound"
       /\ returned' = NoResult
  \/ \E c \in calls :
       /\ upsertLookupDone(c, FALSE) /\ lastOp' = "upsertLookupFail"
       /\ returned' = NoResult
  \/ \E w \in Wheres : countFn(w) /\ lastOp' = "other" /\ returned' = NoResult
  \/ \E c \in calls : \E n \in Counts :
       countFnDone(c) /\ lastOp' = "countOk" /\ returned' = countFnOkResult(n)
  \/ \E c \in calls :
       countFnDone(c) /\ lastOp' = "countFail" /\ returned' = countFnFailResult
  \/ \E req \in fetches : \E typedData \in RowLists :
       /\ findManyOk(req, typedData) /\ lastOp' = "findManyOk"
       /\ returned' = findManyOkResult(typedData)
  \/ \E req \in fetches :
       findManyFail(req) /\ lastOp' = "findManyFail" /\ returned' = findManyFailResult
  \/ \E p \in {NoOptions} : refresh(p) /\ lastOp' = "other" /\ returned' = NoResult
  \/ \E c \in counts : countTimerFire(c) /\ lastOp' = "other" /\ returned' = NoResult
  \/ \E c \in counts : \E n \in Counts :
       countResponse(c, n, FALSE) /\ lastOp' = "other" /\ returned' = NoResult
  \/ \E r \in RowUniverse : pushInsert(r) /\ lastOp' = "push" /\ returned' = NoResult
  \/ \E r \in RowUniverse : pushUpdate(r) /\ lastOp' = "push" /\ returned' = NoResult

SpecOps == InitOps /\ [][NextOps]_allVars

\* ------------------------------------------------ the subscription's life
\* The component is mounted with realtime on or off, re-rendered with other
\* options, another channel name or realtime flipped, and unmounted, while
\* the gateway answers and pushes events. What completes after the unmount
\* reaches no state (the component's state is gone), so only push events are
\* let through there: whether one still arrives is the program's doing.
SubOptions ==
  {NoOptions, [NoOptions EXCEPT !.where = WhereLit(1)],
   [NoOptions EXCEPT !.limit = 1]}

InitSub == InitWith(NoOptions, TRUE) \/ InitWith(NoOptions, FALSE)

NextSub ==
  \/ mounted /\ setRealtime /\ lastOp' = "subscribe" /\ returned' = NoResult
  \/ mounted /\ setChannelName /\ lastOp' = "subscribe" /\ returned' = NoResult
  \/ \E o \in SubOptions :
       mounted /\ setOptions(o) /\ lastOp' = "setOptions" /\ returned' = NoResult
  \/ unmount /\ lastOp' = "unmount" /\ returned' = NoResult
  \/ \E req \in fetches : \E typedData \in RowLists :
       /\ mounted /\ findManyOk(req, typedData) /\ lastOp' = "findManyOk"
       /\ returned' = findManyOkResult(typedData)
  \/ \E c \in counts :
       mounted /\ countTimerFire(c) /\ lastOp' = "other" /\ returned' = NoResult
  \/ \E c \in counts : \E n \in Counts :
       /\ mounted /\ countResponse(c, n, FALSE) /\ lastOp' = "other"
       /\ returned' = NoResult
  \/ \E r \in RowUniverse : pushInsert(r) /\ lastOp' = "push" /\ returned' = NoResult
  \/ \E r \in RowUniverse : pushUpdate(r) /\ lastOp' = "push" /\ returned' = NoResult
  \/ \E i \in Ids : pushDelete(i) /\ lastOp' = "push" /\ returned' = NoResult

SpecSub == InitSub /\ [][NextSub]_allVars

\* The same operations, where every timer that was set fires.
countTimerFires ==
  \E c \in counts : countTimerFire(c) /\ lastOp' = "other" /\ returned' = NoResult

SpecOpsFair == SpecOps /\ WF_allVars(countTimerFires)

\* ------------------------------------------- option changes around a search
\* The consumer re-renders with the same or with other options, and searches;
\* push updates are off.
ReloadOptions == {NoOptions, [NoOptions EXCEPT !.limit = 1]}
ReloadQuery == [field |-> "name", value |-> <<"a">>]

InitReload == InitWith(NoOptions, FALSE)

NextReload ==
  \/ \E o \in ReloadOptions :
       setOptions(o) /\ lastOp' = "setOptions" /\ returned' = NoResult
  \/ \E p \in ReloadOptions :
       refresh(p) /\ lastOp' = "refresh" /\ returned' = NoResult
  \/ addQuery(ReloadQuery) /\ lastOp' = "other" /\ returned' = NoResult
  \/ clearQueries /\ lastOp' = "other" /\ returned' = NoResult
  \/ \E t \in timers :
       searchTimerFire(t) /\ lastOp' = "searchTimerFire" /\ returned' = NoResult
  \/ \E rpc \in rpcs : \E results \in SearchRowLists :
       /\ searchResponse(rpc, results) /\ lastOp' = "searchResponse"
       /\ returned' = NoResult
  \/ \E req \in fetches : \E typedData \in SearchRowLists :
       /\ findManyOk(req, typedData) /\ lastOp' = "findManyOk"
       /\ returned' = findManyOkResult(typedData)
  \/ \E c \in counts : \E n \in Counts :
       countResponse(c, n, FALSE) /\ lastOp' = "other" /\ returned' = NoResult

SpecReload == InitReload /\ [][NextReload]_allVars

\* ------------------------------------------------- rows without timestamp
\* The gateway pushes rows whose creation timestamp is null, among others;
\* the view has no orderBy, so the handlers sort by that timestamp.
NullableRows ==
  RowUniverse \cup {[id |-> i, num |-> n, createdAt |-> Null] : i \in Ids, n \in Nums}

\* Array.prototype.sort looks only at the sign of what the comparator returns.
sign(n) == IF n > 0 THEN 1 ELSE IF n < 0 THEN -1 ELSE 0

\* Is the comparator consistent on these rows?  If it is not, the order sort
\* leaves them in is implementation-defined.
consistentOn(orderBy, rows) ==
  \A a, b \in Range(rows) :
    sign(rowCompare(orderBy, a, b)) = -sign(rowCompare(orderBy, b, a))

sortOutcomes(orderBy, rows) ==
  IF consistentOn(orderBy, rows) THEN {resort(orderBy, rows)}
  ELSE {t \in SeqsUpTo(Range(rows), Len(rows)) :
          Len(t) = Len(rows) /\ Range(t) = Range(rows)}

\* The INSERT handler on such a row, search inactive and no limit set.
pushInsertNullable(newRecord) ==
  /\ delivers(newRecord)
  /\ ~isSearching /\ opts.limit = NoLimit
  /\ IF insertApplies(data, newRecord, opts.where)
     THEN /\ data' \in sortOutcomes(opts.orderBy, Append(data, newRecord))
          /\ counts' = countDeferred(sub.where)
     ELSE UNCHANGED <<data, counts>>
  /\ canCount(counts')
  /\ UNCHANGED <<count, loading, error, fetches, propVars, searchVars>>

NextCompare ==
  \/ \E req \in fetches : \E typedData \in RowLists :
       /\ findManyOk(req, typedData) /\ lastOp' = "findManyOk"
       /\ returned' = findManyOkResult(typedData)
  \/ \E c \in counts : countTimerFire(c) /\ lastOp' = "other" /\ returned' = NoResult
  \/ \E c \in counts : \E n \in Counts :
       countResponse(c, n, FALSE) /\ lastOp' = "other" /\ returned' = NoResult
  \/ \E r \in NullableRows :
       pushInsertNullable(r) /\ lastOp' = "push" /\ returned' = NoResult
  \/ \E i \in Ids : pushDelete(i) /\ lastOp' = "push" /\ returned' = NoResult

SpecCompare == Init /\ [][NextCompare]_allVars

\* ------------------------------------------------ push events on a window
\* The view is mounted with a limit (or none) and its options stay; the
\* gateway pushes events and answers every fetch it was sent.
PushOptions ==
  {NoOptions, [NoOptions EXCEPT !.limit = 1], [NoOptions EXCEPT !.limit = 2],
   [NoOptions EXCEPT !.orderBy = OrderByDesc, !.limit = 1]}

InitPush == \E o \in PushOptions : InitWith(o, TRUE)

fetchAnswered ==
  \E req \in fetches : \E typedData \in RowLists :
    /\ findManyOk(req, typedData) /\ lastOp' = "findManyOk"
    /\ returned' = findManyOkResult(typedData)

NextPush ==
  \/ fetchAnswered
  \/ \E c \in counts : countTimerFire(c) /\ lastOp' = "other" /\ returned' = NoResult
  \/ \E c \in counts : \E n \in Counts :
       countResponse(c, n, FALSE) /\ lastOp' = "other" /\ returned' = NoResult
  \/ \E r \in RowUniverse :
       pushInsert(r) /\ lastOp' = "pushInsert" /\ returned' = NoResult
  \/ \E r \in RowUniverse :
       pushUpdate(r) /\ lastOp' = "pushUpdate" /\ returned' = NoResult
  \/ \E i \in Ids : pushDelete(i) /\ lastOp' = "pushDelete" /\ returned' = NoResult

SpecPush == InitPush /\ [][NextPush]_allVars /\ WF_allVars(fetchAnswered)

\* ------------------------------------------------- a search on a later page
\* The view is mounted with a limit and an offset and the consumer searches;
\* push updates are off.
PageOptions ==
  {o \in Options : o.where = NoWhere /\ o.orderBy \in {NoOrder, OrderByAsc}}

InitPage == \E o \in PageOptions : InitWith(o, FALSE)

NextPage ==
  \/ addQuery(ReloadQuery) /\ lastOp' = "other" /\ returned' = NoResult
  \/ clearQueries /\ lastOp' = "other" /\ returned' = NoResult
  \/ \E t \in timers :
       searchTimerFire(t) /\ lastOp' = "searchTimerFire" /\ returned' = NoResult
  \/ \E rpc \in rpcs : \E results \in RowLists :
       /\ searchResponse(rpc, results) /\ lastOp' = "searchResponse"
       /\ returned' = NoResult
  \/ \E req \in fetches : \E typedData \in RowLists :
       /\ findManyOk(req, typedData) /\ lastOp' = "findManyOk"
       /\ returned' = findManyOkResult(typedData)
  \/ \E c \in counts : \E n \in Counts :
       countResponse(c, n, FALSE) /\ lastOp' = "other" /\ returned' = NoResult

SpecPage == InitPage /\ [][NextPage]_allVars

\* ------------------------------------------------------ overlapping fetches
\* The consumer changes the limit while earlier fetches are still in flight;
\* the gateway answers them in any order.  Push updates are off.
RaceOptions == {[NoOptions EXCEPT !.limit = l] : l \in Limits}

\* A render with changed options o outside a search, and the load effect:
\* findMany and fetchTotalCount with the new options, whatever is in flight.
setOptionsOverlap(o) ==
  /\ ~isSearching /\ optionsChanged(o)
  /\ Cardinality(fetches \cup {fetchReq(o, o.where)}) <= MaxOverlap
  /\ opts' = o
  /\ optionsRef' = o
  /\ fetches' = fetches \cup {fetchReq(o, o.where)}
  /\ loading' = TRUE
  /\ error' = NoError
  /\ counts' = countIssued(o.where)
  /\ canCount(counts')
  /\ UNCHANGED <<data, count, realtime, mountOpts, sub, channels, channelRef,
                 mounted, calls, searchVars>>

InitRace == InitWith(NoOptions, FALSE)

NextRace ==
  \/ \E o \in RaceOptions :
       setOptionsOverlap(o) /\ lastOp' = "setOptions" /\ returned' = NoResult
  \/ \E req \in fetches : \E typedData \in RowLists :
       /\ findManyOk(req, typedData) /\ lastOp' = "findManyOk"
       /\ returned' = findManyOkResult(typedData)
  \/ \E c \in counts : \E n \in Counts :
       countResponse(c, n, FALSE) /\ lastOp' = "other" /\ returned' = NoResult

SpecRace == InitRace /\ [][NextRace]_allVars

\* ------------------------------------------------- leaving the search overlay
\* The table holds one row per identifier and does not change: every fetch
\* answers all of them and every count query their number, while a search
\* answers any of them.  Push updates are off.
TableCount == Cardinality(Ids)
TableLists == {s \in SearchRowLists : Len(s) = TableCount}

InitLeave == InitWith(NoOptions, FALSE)

NextLeave ==
  \/ addQuery(ReloadQuery) /\ lastOp' = "other" /\ returned' = NoResult
  \/ clearQueries /\ lastOp' = "clearQueries" /\ returned' = NoResult
  \/ \E f \in QueryFields :
       removeQuery(f) /\ lastOp' = "removeQuery" /\ returned' = NoResult
  \/ \E t \in timers :
       searchTimerFire(t) /\ lastOp' = "searchTimerFire" /\ returned' = NoResult
  \/ \E rpc \in rpcs : \E results \in SearchRowLists :
       /\ searchResponse(rpc, results) /\ lastOp' = "searchResponse"
       /\ returned' = NoResult
  \/ \E req \in fetches : \E typedData \in TableLists :
       /\ findManyOk(req, typedData) /\ lastOp' = "findManyOk"
       /\ returned' = findManyOkResult(typedData)
  \/ \E c \in counts :
       /\ countResponse(c, TableCount, FALSE) /\ lastOp' = "other"
       /\ returned' = NoResult

SpecLeave == InitLeave /\ [][NextLeave]_allVars

\* ------------------------------------------------- searches and the lifecycle
\* The consumer searches, toggles push updates, renames the subscription and
\* disposes of the view; every timer that stays set fires and the gateway
\* answers every search call.
InitDispose == InitWith(NoOptions, TRUE) \/ InitWith(NoOptions, FALSE)

timerFires ==
  \E t \in timers :
    searchTimerFire(t) /\ lastOp' = "searchTimerFire" /\ returned' = NoResult

searchAnswered ==
  \E rpc \in rpcs : \E results \in SearchRowLists :
    /\ searchResponse(rpc, results) /\ lastOp' = "searchResponse"
    /\ returned' = NoResult

NextDispose ==
  \/ mounted /\ addQuery(ReloadQuery) /\ lastOp' = "other" /\ returned' = NoResult
  \/ mounted /\ clearQueries /\ lastOp' = "other" /\ returned' = NoResult
  \/ mounted /\ setRealtime /\ lastOp' = "subscribe" /\ returned' = NoResult
  \/ mounted /\ setChannelName /\ lastOp' = "subscribe" /\ returned' = NoResult
  \/ unmount /\ lastOp' = "unmount" /\ returned' = NoResult
  \/ timerFires
  \/ searchAnswered
  \/ \E req \in fetches : \E typedData \in SearchRowLists :
       /\ findManyOk(req, typedData) /\ lastOp' = "findManyOk"
       /\ returned' = findManyOkResult(typedData)
  \/ \E c \in counts : \E n \in Counts :
       countResponse(c, n, FALSE) /\ lastOp' = "other" /\ returned' = NoResult

SpecDispose ==
  /\ InitDispose /\ [][NextDispose]_allVars
  /\ WF_allVars(timerFires) /\ WF_allVars(searchAnswered)

\* ------------------------------------------------------ malformed events
\* The gateway pushes events whose row has no identifier, among well-formed
\* ones.
MalformedRows == {[id |-> Null, num |-> n, createdAt |-> 1] : n \in Nums}

NextMalformed ==
  \/ \E req \in fetches : \E typedData \in RowLists :
       /\ findManyOk(req, typedData) /\ lastOp' = "findManyOk"
       /\ returned' = findManyOkResult(typedData)
  \/ \E c \in counts : countTimerFire(c) /\ lastOp' = "other" /\ returned' = NoResult
  \/ \E c \in counts : \E n \in Counts :
       countResponse(c, n, FALSE) /\ lastOp' = "other" /\ returned' = NoResult
  \/ \E r \in RowUniverse : pushInsert(r) /\ lastOp' = "push" /\ returned' = NoResult
  \/ \E i \in Ids : pushDelete(i) /\ lastOp' = "push" /\ returned' = NoResult
  \/ \E r \in MalformedRows :
       /\ Len(data) < MaxRows
       /\ pushInsert(r) /\ lastOp' = "pushMalformed" /\ returned' = NoResult
  \/ \E r \in MalformedRows :
       pushUpdate(r) /\ lastOp' = "pushMalformed" /\ returned' = NoResult
  \/ pushDelete(Null) /\ lastOp' = "pushMalformed" /\ returned' = NoResult

SpecMalformed == Init /\ [][NextMalformed]_allVars

\* ================================================================ claims
\* The view is settled when no findMany is in flight and none has failed
\* since the last one began.
Settled == fetches = {} /\ error = NoError

\* C1 (as claimed): whenever no search is active and the option limit is
\* set, rows.length <= limit -- here even only in settled states.
LimitInvariant ==
  (~isSearching /\ Settled /\ opts.limit # NoLimit) => Len(data) <= opts.limit

\* C2 (as claimed): whenever no search is active, rows is sorted by the
\* comparator of the current options (orderBy, else createdAt descending)
\* -- here even only in settled states.
OrderingInvariant ==
  (~isSearching /\ Settled) => IsSorted(opts.orderBy, data)

\* C3 (as claimed): a push insert whose row does not satisfy the current
\* filter, literal or operator entry alike, leaves that row out of rows.
FilterExclusion ==
  [][\A r \in RowUniverse :
       (pushInsert(r) /\ ~isSearching /\ ~hasId(data, r.id)
          /\ ~applyFilter(opts.where, r))
       => ~hasId(data', r.id)]_allVars

\* C4: in every state, for every insert event e, the rows after processing e
\* twice equal the rows after processing it once.
onInsertNow(prev, e) == onInsert(prev, e, opts.where, opts.orderBy, opts.limit)

IdempotentInsert ==
  \A e \in RowUniverse : onInsertNow(onInsertNow(data, e), e) = onInsertNow(data, e)

\* C4 witness: a push insert has just been processed whose row was appended
\* and then truncated out by the limit, so that a second delivery of it is
\* appended again.
IdempotentInsertWitness ==
  /\ lastOp = "push" /\ ~isSearching
  /\ opts.limit # NoLimit /\ Len(data) = opts.limit
  /\ \E e \in RowUniverse :
       /\ delivers(e)
       /\ insertApplies(data, e, opts.where)
       /\ ~hasId(onInsertNow(data, e), e.id)


\* C5: while the overlay flag is set, no push event and no findMany response
\* changes rows, the response of a findMany issued before the overlay became
\* active included.
OverlayBlocks ==
  [][(isSearching /\ lastOp' \in {"push", "findManyOk"}) => data' = data]_allVars

\* C5 witness: the response of a findMany has just arrived under the overlay.
OverlayBlocksWitness ==
  isSearching /\ lastOp = "findManyOk" /\ searchQueries # <<>>

\* C6 (as claimed): a search response whose execution was issued for a query
\* set that is no longer the active one changes neither rows nor totalCount.
StaleSearchDiscarded ==
  [][(lastOp' = "searchResponse"
      /\ \A rpc \in rpcs \ rpcs' : rpc.queries # searchQueries)
     => (data' = data /\ count' = count)]_allVars

\* C7 (as claimed): every mutation of the query set cancels the pending
\* debounce timer, so a timer that fires was set by the last mutation: it
\* carries the active query set.
MutationCancelsPending ==
  [][lastOp' = "searchTimerFire"
     => \A t \in timers \ timers' : t.queries = searchQueries]_allVars

\* C8: after a valid addQuery or setQueries call, the first of a burst or one
\* made while the timer of the previous call is pending, exactly one search
\* execution is pending and it carries the query set as it is after the call.
DebounceCoalescing ==
  lastOp \in {"scheduled", "coalesced"} =>
    /\ Cardinality(timers) = 1
    /\ \A t \in timers : t.queries = searchQueries /\ t.id = searchTimeoutRef

\* C8 witness: a call made within the debounce window of the previous one has
\* left one pending execution, for a set of two queries.
DebounceCoalescingWitness ==
  /\ lastOp = "coalesced" /\ rpcs = {}
  /\ \E t \in timers : Len(t.queries) = 2 /\ t.queries = searchQueries

\* C9 (as claimed): the query set is non-empty exactly when the overlay flag
\* is set, and rows are never replaced by search results while the query set
\* is empty.
SearchStateInvariant ==
  /\ isSearching <=> searchQueries # <<>>
  /\ lastOp = "searchResponse" => searchQueries # <<>>

\* A query addQuery must reject: its field is not searchable, or its value
\* holds nothing but spaces.
rejectedQuery(q) ==
  q.field \notin searchFields \/ \A i \in DOMAIN q.value : q.value[i] = " "

\* C10: addQuery with a field outside the searchable set, or a value that is
\* empty after trimming, leaves the query set, the overlay flag, the pending
\* debounce timer, rows and totalCount unchanged and issues no gateway call.
SearchValidation ==
  [][\A q \in SearchQueryInputs :
       (rejectedQuery(q) /\ addQuery(q)) =>
         UNCHANGED <<searchQueries, isSearching, timers, searchTimeoutRef,
                     data, count, rpcs, fetches, counts>>]_allVars

\* C10 witness: addQuery has just been rejected while a search was pending.
SearchValidationWitness ==
  lastOp = "rejected" /\ isSearching /\ timers # {} /\ searchQueries # <<>>

\* C11 (as claimed): once the query set is empty (removeQuery emptied it, or
\* clearQueries) and stays empty, rows are those of the baseline fetch: they
\* change only by the response of a fetch or by a push event.
BaselineRestored ==
  [][(searchQueries = <<>> /\ searchQueries' = <<>> /\ data' # data)
     => lastOp' \in {"findManyOk", "push"}]_allVars

\* C12: a view instance has at most one open channel registration, across
\* mount, re-renders, realtime toggles, channel name changes and unmount.
AtMostOneSubscription == Cardinality(channels) <= 1

\* C12 witness: a subscription re-opened after the options changed is the
\* only one open.
AtMostOneSubscriptionWitness ==
  /\ lastOp = "subscribe" /\ realtime /\ opts.where # NoWhere
  /\ channels = {[id |-> channelRef, where |-> opts.where]}

\* C13: every subscription opened is closed exactly once. While the view is
\* mounted with realtime on, the channel the ref holds is open; the ref never
\* holds a closed channel (a close through it closes an open channel, so
\* none is closed twice); once the view is unmounted or realtime is off no
\* channel is open (none is left unclosed) and no push event is processed.
SubscriptionMatched ==
  /\ (mounted /\ realtime) => \E ch \in channels : ch.id = channelRef
  /\ channelRef # NoChannel => \E ch \in channels : ch.id = channelRef
  /\ ~(mounted /\ realtime) => channels = {} /\ channelRef = NoChannel
  /\ lastOp = "push" => mounted /\ realtime

\* C13 witness: the view was unmounted while its subscription was open.
SubscriptionMatchedWitness ==
  ~mounted /\ realtime /\ lastOp = "unmount" /\ channels = {}

\* C14: a change of where, orderBy, limit or offset alone leaves the open
\* subscription and its filter as they are; channels are opened and closed
\* only when realtime or the channel name changes, or at unmount.
OptionChangeKeepsSubscription ==
  [][/\ lastOp' = "setOptions" => UNCHANGED <<channels, channelRef, sub>>
     /\ channels' # channels => lastOp' \in {"subscribe", "unmount"}]_allVars

\* C14 witness: after a change of where the open subscription still has the
\* filter it was opened with.
OptionChangeKeepsSubscriptionWitness ==
  /\ lastOp = "setOptions" /\ realtime /\ opts.where # NoWhere
  /\ channels = {[id |-> channelRef, where |-> NoWhere]}

\* C15: a push event processed after an option change is handled with the
\* options current at that instant: a row it adds passes the current filter
\* check and the rows are cut to the current limit, rows it adds to or
\* replaces in are sorted by the current order, and the refill fetch of a
\* delete carries the current where, orderBy, limit and offset.
LatestOptions ==
  [][(lastOp' = "push" /\ ~isSearching) =>
       /\ \A i \in DOMAIN data' :
            ~hasId(data, data'[i].id) =>
              /\ matchesFilter(opts.where, data'[i])
              /\ opts.limit # NoLimit => Len(data') <= opts.limit
              /\ IsSorted(opts.orderBy, data')
       /\ (data' # data /\ Len(data') = Len(data)) => IsSorted(opts.orderBy, data')
       /\ \A req \in fetches' \ fetches :
            /\ req.where = opts.where /\ req.orderBy = opts.orderBy
            /\ req.take = opts.limit /\ req.skip = opts.offset]_allVars

\* C15 witness: a push event has been processed under a where and a limit
\* that are not those of the render that opened the subscription.
LatestOptionsWitness ==
  /\ lastOp = "push" /\ ~isSearching /\ data # <<>>
  /\ opts.where # sub.where /\ opts.limit # NoLimit /\ Len(data) = opts.limit

\* C16: when a findMany gateway call fails, rows and totalCount are what they
\* were, error is the failure, and the call returns { data: null, error }.
StaleButAvailable ==
  [][lastOp' = "findManyFail" =>
       /\ data' = data /\ count' = count
       /\ error' # NoError
       /\ ~returned'.hasData /\ returned'.error = error']_allVars

\* C16 witness: a fetch has just failed while rows were on display.
StaleButAvailableWitness ==
  lastOp = "findManyFail" /\ data # <<>> /\ count > 0 /\ error # NoError

\* C18 (as claimed): error, once set by a failed fetch, is cleared only by a
\* fetch that completes successfully.
ErrorSticky ==
  [][(error # NoError /\ error' = NoError) => lastOp' = "findManyOk"]_allVars

\* C17 (as claimed): an operation whose gateway call fails returns a result
\* that carries a non-null error.
FailureReturnsError ==
  [][lastOp' \in {"findManyFail", "createFail", "updateFail", "countFail"}
     => returned'.error # NoError]_allVars

\* C20 (as claimed): with realtime off, when create returns the returned row
\* is in rows (no limit, no filter and no search in the way), and when update
\* returns the row of rows with that identifier is the returned row.
LocalMutationApplied ==
  /\ (lastOp = "createOk" /\ ~realtime /\ ~isSearching
        /\ opts.limit = NoLimit /\ opts.where = NoWhere)
     => hasId(data, returned.data[1].id)
  /\ (lastOp = "updateOk" /\ ~realtime /\ ~isSearching)
     => \A i \in DOMAIN data :
          data[i].id = returned.data[1].id => data[i] = returned.data[1]

\* C19 (as claimed): a malformed push event (here: the row of the payload
\* has no identifier) is dropped: rows are unchanged after it is processed.
MalformedDropped ==
  [][lastOp' = "pushMalformed" => data' = data]_allVars

\* The steps of create, update, delete, deleteMany and upsert.
MutationSteps ==
  {"mutate", "createOk", "createFail", "updateOk", "updateMissing",
   "updateFail", "deleteFound", "deleteMissing", "deleteOk", "deleteFail",
   "deleteManyRead", "deleteManyNone", "deleteManyOk", "deleteManyFail",
   "upsertFound", "upsertNotFound", "upsertLookupFail"}

\* C21: with push updates enabled, no step of create, update, delete,
\* deleteMany or upsert changes rows, whether the operation succeeds or fails.
MutationLeavesRows ==
  [][(realtime /\ lastOp' \in MutationSteps) => data' = data]_allVars

\* C21 witness: a delete has succeeded with push updates enabled while rows
\* holds the deleted row.
MutationLeavesRowsWitness ==
  /\ lastOp = "deleteOk" /\ realtime
  /\ hasId(data, returned.data[1].id)

UpsertOneMutation ==
  [][lastOp' \in {"upsertFound", "upsertNotFound"}
     => \E c \in calls : \E m \in calls' :
          /\ c.op = "upsertLookup"
          /\ calls' = (calls \ {c}) \cup {m}
          /\ m.row = c.row
          /\ m.op = IF lastOp' = "upsertFound" THEN "update" ELSE "create"]_allVars

\* C23 witness: the lookup found a row and the update is in flight.
UpsertOneMutationWitness ==
  lastOp = "upsertFound" /\ \E m \in calls : m.op = "update"

\* C24 (as claimed): an update or a delete of an identifier that no row has
\* returns a result with a non-null error.
MissingIdReturnsError ==
  [][lastOp' \in {"updateMissing", "deleteMissing"}
     => returned'.error # NoError]_allVars

\* C25 (as claimed): outside a search, a re-render with structurally equal
\* options issues no fetch, and a re-render with structurally different
\* options issues a fetch with the new options.
OptionChangeDetection ==
  [][(lastOp' = "setOptions" /\ ~isSearching)
     => IF opts' = opts THEN fetches' = fetches
        ELSE fetchReq(opts', opts'.where) \in fetches']_allVars

\* C26 (as claimed): on the timestamps of the rows the handlers sort,
\* compareValues is a strict weak ordering in both directions: a value
\* compares equal to itself, swapping the arguments flips the sign, the order
\* is transitive, and null comes before every other value ascending and
\* after every other value descending.
StrictWeakOrdering ==
  \A i, j, k \in DOMAIN data : \A d \in {"asc", "desc"} :
    LET a == data[i].createdAt
        b == data[j].createdAt
        c == data[k].createdAt
    IN /\ compareValues(a, a, d) = 0
       /\ sign(compareValues(a, b, d)) = -sign(compareValues(b, a, d))
       /\ (compareValues(a, b, d) <= 0 /\ compareValues(b, c, d) <= 0)
          => compareValues(a, c, d) <= 0
       /\ (a = Null /\ b # Null)
          => IF d = "asc" THEN compareValues(a, b, d) < 0
             ELSE compareValues(a, b, d) > 0

\* C27: when no search is active and a push insert carries a row that
\* matches the filter and whose identifier is not in rows, rows afterwards
\* are the previous rows plus the new row, sorted by the effective
\* comparator and cut to the first limit elements.
InsertReconciled ==
  [][\A r \in RowUniverse :
       (/\ lastOp' = "pushInsert" /\ pushInsert(r)
        /\ ~isSearching /\ applyFilter(opts.where, r) /\ ~hasId(data, r.id))
       => LET sorted == sortRows(opts.orderBy, Append(data, r)) IN
          data' = IF opts.limit # NoLimit
                  THEN SubSeq(sorted, 1, IF Len(sorted) < opts.limit
                                         THEN Len(sorted) ELSE opts.limit)
                  ELSE sorted]_allVars

\* C27 witness: an insert has been processed in a view ordered descending
\* with limit 1 that was full before it; the count refresh it deferred is
\* pending.
InsertReconciledWitness ==
  /\ lastOp = "pushInsert" /\ ~isSearching
  /\ opts.orderBy = OrderByDesc /\ opts.limit = 1 /\ Len(data) = 1
  /\ [stage |-> "timer", where |-> sub.where] \in counts

SearchCountKept ==
  [][(/\ lastOp = "searchResponse" /\ isSearching /\ isSearching'
      /\ lastOp' # "searchResponse")
     => count' = count]_allVars

\* C31 (as claimed): the rows a search execution produces are the elements
\* of its merged, filtered and ordered result at the positions from offset
\* (counted from 0) up to offset + limit, or up to the end when no limit is
\* set.
SearchWindow ==
  [][\A rpc \in rpcs : \A results \in RowLists :
       (lastOp' = "searchResponse" /\ searchResponse(rpc, results))
       => LET ordered == searchSort(rpc.opts.orderBy,
                                    searchFilter(results, rpc.opts.where))
              first == IF rpc.opts.offset = NoOffset THEN 0 ELSE rpc.opts.offset
              last == IF rpc.opts.limit = NoLimit
                         \/ first + rpc.opts.limit > Len(ordered)
                      THEN Len(ordered) ELSE first + rpc.opts.limit
          IN data' = SubSeq(ordered, first + 1, last)]_allVars

\* C32 (as claimed): each create, update, delete and deleteMany that returns
\* successfully is eventually followed by a count query to the gateway.
CountRefreshFollows ==
  (lastOp \in {"createOk", "updateOk", "updateMissing", "deleteOk",
               "deleteManyOk", "deleteManyNone"})
    ~> (\E c \in counts : c.stage = "inflight")

UniqueIds ==
  ~isSearching =>
    \A i, j \in DOMAIN data : data[i].id = data[j].id => i = j

\* C34 witness: a push insert has been processed whose identifier rows
\* already held (it deferred no count refresh), and rows are not empty.
UniqueIdsWitness ==
  /\ lastOp = "pushInsert" /\ ~isSearching
  /\ data # <<>> /\ counts = {}

\* C35 (as claimed): the answer of an earlier fetch that arrives after the
\* answer of the most recently issued fetch does not change rows: once all
\* fetches have completed, rows are the answer of the one issued last.
LastFetchWins ==
  [][(/\ lastOp = "findManyOk" /\ lastOp' = "findManyOk"
      /\ ~isSearching /\ fetches' = {}
      /\ fetches # {fetchReq(opts, opts.where)})
     => data' = data]_allVars

\* C36 (as claimed): loading is true in every state in which a fetch, a
\* lookup, a create, an update, a delete or a deleteMany is in flight.
LoadingWhileInFlight ==
  (fetches # {} \/ \E c \in calls : c.op # "count") => loading

\* C37 (as claimed): when the search has been left (the query set is empty
\* and the flag cleared) and the restoring fetch and every other request
\* have completed, totalCount is the gateway's count of the rows matching
\* the current filter.
CountAfterSearch ==
  (/\ ~isSearching /\ searchQueries = <<>>
   /\ fetches = {} /\ counts = {} /\ rpcs = {} /\ timers = {})
  => count = TableCount

\* C38 (as claimed): the count refresh a push event schedules counts under
\* the filter that is current when the event is processed, also after the
\* filter has changed without a new subscription.
PushCountsCurrentFilter ==
  [][(lastOp' = "push" /\ ~isSearching)
     => \A c \in counts' \ counts : c.where = opts.where]_allVars

\* C39 (as claimed): whenever search.loading is true it eventually becomes
\* false again, and no debounce timer fires after the view was disposed of.
SearchLoadingTerminates ==
  /\ searchLoading ~> ~searchLoading
  /\ [][lastOp' = "searchTimerFire" => mounted]_allVars

\* C40 (as claimed): when the lookup of upsert fails with a gateway error,
\* upsert calls neither create nor update and returns a result that carries
\* the error.
UpsertLookupFailure ==
  [][lastOp' = "upsertLookupFail"
     => /\ \A m \in calls' \ calls : m.op \notin {"create", "update"}
        /\ returned'.error # NoError]_allVars

====
